---------------------------- MODULE Spec2Model ----------------------------
(***************************************************************************)
(* planx-common: the telemetry correlation layer.                          *)
(*                                                                         *)
(*   metrics   (package telemetry, src/unnamed/part_001 lines 1-182)       *)
(*   tracing   (package telemetry, src/unnamed/part_001 lines 184-358)     *)
(*   logging   (package telemetry, src/config/config.go lines 39-123)      *)
(*   logger    (package logger,    src/logger/logger.go)                   *)
(*                                                                         *)
(* Goroutines are the processes.  Every read or write of a package-level   *)
(* variable is one step, so the unsynchronised accesses of the code        *)
(* interleave; a store of an interface value is taken as one step.  An     *)
(* unrecovered panic ends the whole process (Go), so after one no action   *)
(* is enabled.                                                             *)
(***************************************************************************)
EXTENDS Integers, Sequences, FiniteSets, TLC

\* ------------------------------------------------------------------ bounds
NumProcs == 2
MaxCalls == 3

Procs == 1 .. NumProcs

\* ------------------------------------------------------------------- state
VARIABLES
    pc,             \* goroutine -> position ("idle" between two API calls)
    calls,          \* API calls started so far (bounded by MaxCalls)
    started,        \* goroutines that have made a call: 1 .. started
    panicked,       \* an unrecovered panic has ended the process
    loc,            \* goroutine -> the locals of its running call
    ret,            \* the call that returned last: who, which, what
    once,           \* gate -> [done, m] of its sync.Once (m: holder, 0 free)
    hist,           \* per subsystem: setups entered, first outcome, returns
    meter,          \* var meter metric.Meter
    globalMP,       \* otel's process-wide MeterProvider
    instr,          \* instrument variable -> "nil" | "set"
    points,         \* <<instrument, attributes>> -> aggregated sum
    loggerProvider, \* var loggerProvider *sdklog.LoggerProvider
    globalLP,       \* otel's process-wide LoggerProvider
    lpStopped,      \* LoggerProvider.stopped
    lpShutdowns,    \* how many times the log processors were shut down
    tracer,         \* var tracer trace.Tracer
    globalTP,       \* otel's process-wide TracerProvider (0: the default one)
    tpDelegate,     \* what the default provider's tracers delegate to (0: none)
    propagator,     \* otel's process-wide TextMapPropagator
    tpCount,        \* SDK tracer providers built so far
    minted,         \* trace and span ids handed out by the SDK id generator
    ctx,            \* goroutine -> the context.Context it holds
    carrier,        \* goroutine -> the map[string]string it holds
    spans,          \* span id -> what the SDK holds of a span it was asked about
    globalLogger,   \* var globalLogger zerolog.Logger
    zlGlobalLevel   \* zerolog's process-wide level

ctl         == <<pc, calls, started>>
metricsVars == <<meter, globalMP, instr, points>>
loggingVars == <<loggerProvider, globalLP, lpStopped, lpShutdowns>>

tracingVars == <<tracer, globalTP, tpDelegate, propagator, tpCount, minted, ctx, carrier>>
loggerVars  == <<globalLogger, zlGlobalLevel>>
spanVars    == <<spans>>

vars == <<ctl, panicked, loc, ret, once, hist, metricsVars, loggingVars, tracingVars,
          loggerVars, spanVars>>

\* What a metrics action leaves alone outside its own subsystem, and so on.
notMetrics == <<loggingVars, tracingVars, loggerVars, spanVars>>
notLogging == <<metricsVars, tracingVars, loggerVars, spanVars>>
notTracing == <<metricsVars, loggingVars, loggerVars, spanVars>>
notLogger  == <<metricsVars, loggingVars, tracingVars, spanVars>>
notSpans   == <<metricsVars, loggingVars, tracingVars, loggerVars>>

Gates      == {"meterOnce", "loggerOnce", "once"}
Subsystems == {"tracing", "metrics", "logging", "logger"}

\* The instrument variables in the order initMetricsInternal assigns them.
InstrumentOrder ==
    << "batchesSent", "batchesReceived", "recordsSent", "recordsReceived",
       "errorsTotal", "stageLatency", "ackLatency",
       "windowBacklog", "sessionsActive", "inFlightBatches" >>

Instruments == { InstrumentOrder[i] : i \in 1 .. Len(InstrumentOrder) }

NoArgs == << >>
NoLoc  == [err |-> "nil", cfg |-> "", idx |-> 1, tp |-> 0, busy |-> FALSE,
           args |-> NoArgs]
NoRet  == [proc |-> 0, op |-> "none", val |-> "none", busy |-> FALSE]

\* trace.SpanContext: the zero value has no trace id and no span id.
NoSC == [tid |-> 0, sid |-> 0, sampled |-> FALSE, remote |-> FALSE]

HasTraceID(sc) == sc.tid # 0
HasSpanID(sc)  == sc.sid # 0
IsValid(sc)    == HasTraceID(sc) /\ HasSpanID(sc)

\* A span as the SDK holds it: open, no end time, status Unset, no events.
\* reported notes that RecordSpanError was called on it while it was open.
NewSpan ==
    [ended |-> FALSE, endTime |-> 0, status |-> "Unset", desc |-> "",
     events |-> << >>, reported |-> FALSE]

\* The span of a context is an SDK span if an SDK tracer started it; it is a
\* non-recording span if the identity is remote or absent.
IsSdkSpan(sc) == IsValid(sc) /\ ~sc.remote

SpanState(all, sid) == IF sid \in DOMAIN all THEN all[sid] ELSE NewSpan

\* context.Background(): no span, no baggage, no values under the keys of
\* package logger.
Background == [sc |-> NoSC, bag |-> "", values |-> << >>]

\* make(map[string]string); src remembers the identity injected into the map
\* while it was empty.
EmptyMap     == << >>
EmptyCarrier == [map |-> EmptyMap, src |-> NoSC]

NilTracer    == [kind |-> "nil", tp |-> 0]
GlobalTracer == [kind |-> "global", tp |-> 0]
SdkTracer(k) == [kind |-> "sdk", tp |-> k]

\* The zero zerolog.Logger: no writer, level 0 (zerolog.DebugLevel).
ZeroLogger == [w |-> <<"nil", "">>, level |-> 0, service |-> ""]

Init ==
    /\ pc = [p \in Procs |-> "idle"]
    /\ calls = 0
    /\ started = 0
    /\ panicked = FALSE
    /\ loc = [p \in Procs |-> NoLoc]
    /\ ret = NoRet
    /\ once = [g \in Gates |-> [done |-> 0, m |-> 0]]
    /\ hist = [s \in Subsystems |->
                  [inits |-> 0, setups |-> 0, outcome |-> "none", returned |-> 0]]
    /\ meter = "nil"
    /\ globalMP = "default"
    /\ instr = [i \in Instruments |-> "nil"]
    /\ points = << >>
    /\ loggerProvider = "nil"
    /\ globalLP = "default"
    /\ lpStopped = FALSE
    /\ lpShutdowns = 0
    /\ tracer = NilTracer
    /\ globalTP = 0
    /\ tpDelegate = 0
    /\ propagator = "noop"
    /\ tpCount = 0
    /\ minted = 0
    /\ ctx = [p \in Procs |-> Background]
    /\ carrier = [p \in Procs |-> EmptyCarrier]
    /\ spans = << >>
    /\ globalLogger = ZeroLogger
    /\ zlGlobalLevel = 0

\* ------------------------------------------------------------- call frames
\* Goroutines are interchangeable, so they are numbered in the order of their
\* first call: goroutine p + 1 does not start before goroutine p has.
MayCall(max, p) ==
    /\ ~panicked
    /\ pc[p] = "idle"
    /\ calls < max
    /\ p <= started + 1

Called(p) ==
    /\ calls' = calls + 1
    /\ started' = IF p > started THEN p ELSE started

\* A goroutine starts an API call from "idle" with fresh locals; the call
\* budget bounds the run.  ret holds a result until the next call starts.
BeginWithin(max, p, at, endpoint, args) ==
    /\ MayCall(max, p)
    /\ Called(p)
    /\ pc' = [pc EXCEPT ![p] = at]
    /\ loc' = [loc EXCEPT ![p] = [NoLoc EXCEPT !.cfg = endpoint, !.args = args]]
    /\ ret' = NoRet
    /\ UNCHANGED <<panicked, once>>

Begin(p, at, endpoint, args) ==
    /\ BeginWithin(MaxCalls, p, at, endpoint, args)
    /\ UNCHANGED hist

\* An Init call of subsystem s starts.
BeginInit(max, p, s, at, endpoint, args) ==
    /\ BeginWithin(max, p, at, endpoint, args)
    /\ hist' = [hist EXCEPT ![s].inits = @ + 1]

\* One step of a running call.
Step(p, at, next) ==
    /\ ~panicked
    /\ pc[p] = at
    /\ pc' = [pc EXCEPT ![p] = next]
    /\ UNCHANGED <<calls, started, panicked>>

\* The call returns val to its caller.
Return(p, at, op, val) ==
    /\ Step(p, at, "idle")
    /\ ret' = [proc |-> p, op |-> op, val |-> val, busy |-> loc[p].busy]
    /\ loc' = [loc EXCEPT ![p] = NoLoc]
    /\ UNCHANGED once

\* ---------------------------------------------------------------- sync.Once
\* Do's fast path: if o.done.Load() == 0 { o.doSlow(f) }
OnceDo(p, g, at, slow, done) ==
    /\ Step(p, at, IF once[g].done = 0 THEN slow ELSE done)
    /\ loc' = [loc EXCEPT ![p].busy = (once[g].done = 0 /\ once[g].m # 0)]
    /\ UNCHANGED <<ret, once, hist>>

\* doSlow: o.m.Lock()
OnceLock(p, g, at, next) ==
    /\ once[g].m = 0
    /\ Step(p, at, next)
    /\ once' = [once EXCEPT ![g].m = p]
    /\ UNCHANGED <<loc, ret, hist>>

\* A Once that publishes done before f has run.
OnceCheckStoreEarly(p, g, at, run, skip) ==
    /\ Step(p, at, IF once[g].done = 0 THEN run ELSE skip)
    /\ once' = [once EXCEPT ![g].done = 1]
    /\ UNCHANGED <<loc, ret, hist>>

\* A Once whose slow path runs f without looking at done again.
OnceCheckRunsAgain(p, g, at, run, skip) ==
    /\ Step(p, at, run)
    /\ UNCHANGED <<loc, ret, once, hist>>

\* doSlow: if o.done.Load() == 0 { defer o.done.Store(1); f() }
OnceCheck(p, g, at, run, skip) ==
    /\ Step(p, at, IF once[g].done = 0 THEN run ELSE skip)
    /\ UNCHANGED <<loc, ret, once, hist>>

\* the deferred o.done.Store(1), after f has returned
OnceStore(p, g, at, next) ==
    /\ Step(p, at, next)
    /\ once' = [once EXCEPT ![g].done = 1]
    /\ UNCHANGED <<loc, ret, hist>>

\* the deferred o.m.Unlock()
OnceUnlock(p, g, at, next) ==
    /\ Step(p, at, next)
    /\ once' = [once EXCEPT ![g].m = 0]
    /\ UNCHANGED <<loc, ret, hist>>

\* A fallible step of a setup body (resource.New, an exporter constructor):
\* it yields nil and goes on, or an error and the body returns it.
Fallible(p, s, at, next, out, errors, first) ==
    /\ \E e \in {"nil"} \cup errors :
          /\ Step(p, at, IF e = "nil" THEN next ELSE out)
          /\ loc' = [loc EXCEPT ![p].err = e]
          /\ hist' = [hist EXCEPT
                 ![s].setups = IF first THEN @ + 1 ELSE @,
                 ![s].outcome = IF @ = "none" /\ e # "nil" THEN e ELSE @]
    /\ UNCHANGED <<ret, once>>

\* The setup body returns nil.
SetupOk(p, s, at, next) ==
    /\ Step(p, at, next)
    /\ loc' = [loc EXCEPT ![p].err = "nil"]
    /\ hist' = [hist EXCEPT ![s].outcome = IF @ = "none" THEN "nil" ELSE @]
    /\ UNCHANGED <<ret, once>>

\* An Init call returns its local err.
InitReturn(p, s, at, op) ==
    /\ Return(p, at, op, loc[p].err)
    /\ hist' = [hist EXCEPT ![s].returned = @ + 1]

Endpoints == {"", "collector:4317"}

\* ------------------------------------------------------------------ metrics
\* func InitMetrics(ctx, cfg) error { var err error; meterOnce.Do(...) }
InitMetrics_Call(p, endpoint) ==
    /\ BeginInit(MaxCalls, p, "metrics", "InitMetrics:51", endpoint, NoArgs)
    /\ UNCHANGED <<metricsVars, notMetrics>>

InitMetrics_Do(p) ==
    /\ OnceDo(p, "meterOnce", "InitMetrics:51", "InitMetrics:lock", "InitMetrics:54")
    /\ UNCHANGED <<metricsVars, notMetrics>>

InitMetrics_Lock(p) ==
    /\ OnceLock(p, "meterOnce", "InitMetrics:lock", "InitMetrics:check")
    /\ UNCHANGED <<metricsVars, notMetrics>>

InitMetrics_Check(p) ==
    /\ OnceCheck(p, "meterOnce", "InitMetrics:check", "initMetricsInternal:58",
                 "InitMetrics:unlock")
    /\ UNCHANGED <<metricsVars, notMetrics>>

\* res, err := resource.New(...); if err != nil { return err }
initMetricsInternal_Resource(p) ==
    /\ Fallible(p, "metrics", "initMetricsInternal:58", "initMetricsInternal:67",
                "InitMetrics:53", {"ErrResource"}, TRUE)
    /\ UNCHANGED <<metricsVars, notMetrics>>

\* A setup body that registers its provider before the exporter is built.
initMetricsInternal_ExporterRegistered(p) ==
    /\ Fallible(p, "metrics", "initMetricsInternal:67", "initMetricsInternal:90",
                "InitMetrics:53", {"ErrExporter"}, FALSE)
    /\ globalMP' = IF loc[p].cfg = "" THEN "sdk:stdout" ELSE "sdk:otlp"
    /\ UNCHANGED <<meter, instr, points, notMetrics>>

\* exporter, err = otlpmetricgrpc.New(...) | stdoutmetric.New();
\* if err != nil { return err }
initMetricsInternal_Exporter(p) ==
    /\ Fallible(p, "metrics", "initMetricsInternal:67", "initMetricsInternal:90",
                "InitMetrics:53", {"ErrExporter"}, FALSE)
    /\ UNCHANGED <<metricsVars, notMetrics>>

\* provider := sdkmetric.NewMeterProvider(...); otel.SetMeterProvider(provider)
initMetricsInternal_SetProvider(p) ==
    /\ Step(p, "initMetricsInternal:90", "initMetricsInternal:91")
    /\ globalMP' = IF loc[p].cfg = "" THEN "sdk:stdout" ELSE "sdk:otlp"
    /\ UNCHANGED <<loc, ret, once, hist, meter, instr, points, notMetrics>>

\* meter = provider.Meter("planx")
initMetricsInternal_Meter(p) ==
    /\ Step(p, "initMetricsInternal:91", "initMetricsInternal:94")
    /\ meter' = "planx"
    /\ UNCHANGED <<loc, ret, once, hist, globalMP, instr, points, notMetrics>>

\* batchesSent, _ = meter.Int64Counter(...)  ...  inFlightBatches, _ = ...
initMetricsInternal_Instrument(p) ==
    /\ loc[p].idx <= Len(InstrumentOrder)
    /\ Step(p, "initMetricsInternal:94", "initMetricsInternal:94")
    /\ instr' = [instr EXCEPT ![InstrumentOrder[loc[p].idx]] = "set"]
    /\ loc' = [loc EXCEPT ![p].idx = @ + 1]
    /\ UNCHANGED <<ret, once, hist, meter, globalMP, points, notMetrics>>

\* return nil
initMetricsInternal_Return(p) ==
    /\ loc[p].idx > Len(InstrumentOrder)
    /\ SetupOk(p, "metrics", "initMetricsInternal:94", "InitMetrics:53")
    /\ UNCHANGED <<metricsVars, notMetrics>>

InitMetrics_Store(p) ==
    /\ OnceStore(p, "meterOnce", "InitMetrics:53", "InitMetrics:unlock")
    /\ UNCHANGED <<metricsVars, notMetrics>>

InitMetrics_Unlock(p) ==
    /\ OnceUnlock(p, "meterOnce", "InitMetrics:unlock", "InitMetrics:54")
    /\ UNCHANGED <<metricsVars, notMetrics>>

\* return err
InitMetrics_Return(p) ==
    /\ InitReturn(p, "metrics", "InitMetrics:54", "InitMetrics")
    /\ UNCHANGED <<metricsVars, notMetrics>>

\* --------------------------------------------------------- metric recorders
\* An aggregation that adds the measurement to every stream of the instrument.
AggregateAllStreams(pts, i, attrs, n) ==
    LET k   == <<i, attrs>>
        all == IF k \in DOMAIN pts THEN pts ELSE pts @@ (k :> 0) IN
    [x \in DOMAIN all |-> IF x[1] = i THEN all[x] + n ELSE all[x]]

\* An aggregation that adds the magnitude of the measurement.
AggregateMagnitude(pts, i, attrs, n) ==
    LET k == <<i, attrs>>
        a == IF n < 0 THEN -n ELSE n IN
    IF k \in DOMAIN pts THEN [pts EXCEPT ![k] = @ + a] ELSE pts @@ (k :> a)

\* The SDK aggregates a measurement into the stream of its attribute set.
Aggregate(pts, i, attrs, n) ==
    LET k == <<i, attrs>> IN
    IF k \in DOMAIN pts THEN [pts EXCEPT ![k] = @ + n] ELSE pts @@ (k :> n)

Void(p, op) == [proc |-> p, op |-> op, val |-> "void", busy |-> FALSE]

\* i.Add(ctx, n, metric.WithAttributes(attrs...)) / i.Record(...) on the
\* package variable i: a nil interface panics, an instrument aggregates.
InstrumentUse(p, next, i, attrs, n) ==
    IF instr[i] = "nil"
    THEN /\ panicked' = TRUE
         /\ pc' = [pc EXCEPT ![p] = "panic"]
         /\ points' = points
    ELSE /\ panicked' = panicked
         /\ pc' = [pc EXCEPT ![p] = next]
         /\ points' = Aggregate(points, i, attrs, n)

\* A recorder that makes one instrument call.
Recorder(p, op, i, attrs, n) ==
    /\ MayCall(MaxCalls, p)
    /\ Called(p)
    /\ InstrumentUse(p, "idle", i, attrs, n)
    /\ ret' = IF instr[i] = "nil" THEN ret ELSE Void(p, op)
    /\ UNCHANGED <<loc, once, hist, meter, globalMP, instr, notMetrics>>

\* A recorder that makes two: the first call of the two ...
RecorderFirst(p, at, next, i) ==
    /\ ~panicked
    /\ pc[p] = at
    /\ InstrumentUse(p, next, i, loc[p].args.attrs, 1)
    /\ UNCHANGED <<calls, started, loc, ret, once, hist, meter, globalMP, instr,
                   notMetrics>>

\* ... and the second, after which it returns.
RecorderSecond(p, at, op, i) ==
    /\ ~panicked
    /\ pc[p] = at
    /\ InstrumentUse(p, "idle", i, loc[p].args.attrs, loc[p].args.n)
    /\ ret' = IF instr[i] = "nil" THEN ret ELSE Void(p, op)
    /\ loc' = [loc EXCEPT ![p] = IF instr[i] = "nil" THEN @ ELSE NoLoc]
    /\ UNCHANGED <<calls, started, once, hist, meter, globalMP, instr, notMetrics>>

BatchAttrs(tenantID, stage, pluginType) ==
    [tenant_id |-> tenantID, stage |-> stage, plugin_type |-> pluginType]

\* func RecordBatchSent(ctx, tenantID, stage, pluginType, recordCount)
RecordBatchSent_Call(p, tenantID, stage, pluginType, recordCount) ==
    /\ Begin(p, "RecordBatchSent:129", "",
             [attrs |-> BatchAttrs(tenantID, stage, pluginType), n |-> recordCount])
    /\ UNCHANGED <<metricsVars, notMetrics>>

RecordBatchSent_Batches(p) ==
    RecorderFirst(p, "RecordBatchSent:129", "RecordBatchSent:130", "batchesSent")

RecordBatchSent_Records(p) ==
    RecorderSecond(p, "RecordBatchSent:130", "RecordBatchSent", "recordsSent")

\* func RecordBatchReceived(ctx, tenantID, stage, pluginType, recordCount)
RecordBatchReceived_Call(p, tenantID, stage, pluginType, recordCount) ==
    /\ Begin(p, "RecordBatchReceived:140", "",
             [attrs |-> BatchAttrs(tenantID, stage, pluginType), n |-> recordCount])
    /\ UNCHANGED <<metricsVars, notMetrics>>

RecordBatchReceived_Batches(p) ==
    RecorderFirst(p, "RecordBatchReceived:140", "RecordBatchReceived:141",
                  "batchesReceived")

RecordBatchReceived_Records(p) ==
    RecorderSecond(p, "RecordBatchReceived:141", "RecordBatchReceived",
                   "recordsReceived")

\* func RecordStageLatency(ctx, stage, latencyMs)
RecordStageLatency(p, stage, latencyMs) ==
    Recorder(p, "RecordStageLatency", "stageLatency", [stage |-> stage], latencyMs)

\* func RecordAckLatency(ctx, latencyMs)
RecordAckLatency(p, latencyMs) ==
    Recorder(p, "RecordAckLatency", "ackLatency", << >>, latencyMs)

\* func RecordError(ctx, tenantID, stage, errorType)
RecordError(p, tenantID, stage, errorType) ==
    Recorder(p, "RecordError", "errorsTotal",
             [tenant_id |-> tenantID, stage |-> stage, error_type |-> errorType], 1)

\* func UpdateWindowBacklog(ctx, stage, delta)
UpdateWindowBacklog(p, stage, delta) ==
    Recorder(p, "UpdateWindowBacklog", "windowBacklog", [stage |-> stage], delta)

\* func UpdateSessionsActive(ctx, pluginType, delta)
UpdateSessionsActive(p, pluginType, delta) ==
    Recorder(p, "UpdateSessionsActive", "sessionsActive",
             [plugin_type |-> pluginType], delta)

\* func UpdateInFlightBatches(ctx, delta)
UpdateInFlightBatches(p, delta) ==
    Recorder(p, "UpdateInFlightBatches", "inFlightBatches", << >>, delta)

\* ------------------------------------------------------------------ logging
\* func InitLogging(ctx, cfg) error { var err error; loggerOnce.Do(...) }
InitLogging_Call(p, endpoint) ==
    /\ BeginInit(MaxCalls, p, "logging", "InitLogging:70", endpoint, NoArgs)
    /\ UNCHANGED <<loggingVars, notLogging>>

InitLogging_Do(p) ==
    /\ OnceDo(p, "loggerOnce", "InitLogging:70", "InitLogging:lock", "InitLogging:73")
    /\ UNCHANGED <<loggingVars, notLogging>>

InitLogging_Lock(p) ==
    /\ OnceLock(p, "loggerOnce", "InitLogging:lock", "InitLogging:check")
    /\ UNCHANGED <<loggingVars, notLogging>>

InitLogging_Check(p) ==
    /\ OnceCheck(p, "loggerOnce", "InitLogging:check", "initLoggingInternal:77",
                 "InitLogging:unlock")
    /\ UNCHANGED <<loggingVars, notLogging>>

\* res, err := resource.New(...); if err != nil { return err }
initLoggingInternal_Resource(p) ==
    /\ Fallible(p, "logging", "initLoggingInternal:77", "initLoggingInternal:86",
                "InitLogging:72", {"ErrResource"}, TRUE)
    /\ UNCHANGED <<loggingVars, notLogging>>

\* exporter, err = otlploghttp.New(...) | stdoutlog.New(...);
\* if err != nil { return err }
initLoggingInternal_Exporter(p) ==
    /\ Fallible(p, "logging", "initLoggingInternal:86", "initLoggingInternal:102",
                "InitLogging:72", {"ErrExporter"}, FALSE)
    /\ UNCHANGED <<loggingVars, notLogging>>

\* loggerProvider = sdklog.NewLoggerProvider(...)
initLoggingInternal_Provider(p) ==
    /\ Step(p, "initLoggingInternal:102", "initLoggingInternal:107")
    /\ loggerProvider' = IF loc[p].cfg = "" THEN "sdk:stdout" ELSE "sdk:otlp"
    /\ UNCHANGED <<loc, ret, once, hist, globalLP, lpStopped, lpShutdowns, notLogging>>

\* global.SetLoggerProvider(loggerProvider); return nil
initLoggingInternal_SetProvider(p) ==
    /\ SetupOk(p, "logging", "initLoggingInternal:107", "InitLogging:72")
    /\ globalLP' = loggerProvider
    /\ UNCHANGED <<loggerProvider, lpStopped, lpShutdowns, notLogging>>

InitLogging_Store(p) ==
    /\ OnceStore(p, "loggerOnce", "InitLogging:72", "InitLogging:unlock")
    /\ UNCHANGED <<loggingVars, notLogging>>

InitLogging_Unlock(p) ==
    /\ OnceUnlock(p, "loggerOnce", "InitLogging:unlock", "InitLogging:73")
    /\ UNCHANGED <<loggingVars, notLogging>>

\* return err
InitLogging_Return(p) ==
    /\ InitReturn(p, "logging", "InitLogging:73", "InitLogging")
    /\ UNCHANGED <<loggingVars, notLogging>>

\* A Shutdown that shuts the processors down on every call.
ShutdownLoggingEveryTime(p) ==
    /\ MayCall(MaxCalls, p)
    /\ Called(p)
    /\ ret' = [proc |-> p, op |-> "ShutdownLogging", busy |-> FALSE,
               val |-> [err |-> "nil", provider |-> loggerProvider,
                        stopped |-> lpStopped]]
    /\ lpStopped' = (lpStopped \/ loggerProvider # "nil")
    /\ lpShutdowns' = IF loggerProvider # "nil" THEN lpShutdowns + 1 ELSE lpShutdowns
    /\ UNCHANGED <<pc, panicked, loc, once, hist, loggerProvider, globalLP, notLogging>>

\* func ShutdownLogging(ctx) error: nil without a provider; the provider's
\* Shutdown swaps its stopped flag and shuts the processors down the first
\* time only, which may report an export error.
ShutdownLogging(p) ==
    /\ MayCall(MaxCalls, p)
    /\ Called(p)
    /\ \E e \in {"nil", "ErrShutdown"} :
          /\ e # "nil" => (loggerProvider # "nil" /\ ~lpStopped)
          /\ ret' = [proc |-> p, op |-> "ShutdownLogging", busy |-> FALSE,
                     val |-> [err |-> e, provider |-> loggerProvider,
                              stopped |-> lpStopped]]
    /\ lpStopped' = (lpStopped \/ loggerProvider # "nil")
    /\ lpShutdowns' = IF loggerProvider # "nil" /\ ~lpStopped
                      THEN lpShutdowns + 1 ELSE lpShutdowns
    /\ UNCHANGED <<pc, panicked, loc, once, hist, loggerProvider, globalLP, notLogging>>

\* func GetLoggerProvider() *sdklog.LoggerProvider { return loggerProvider }
GetLoggerProvider(p) ==
    /\ MayCall(MaxCalls, p)
    /\ Called(p)
    /\ ret' = [proc |-> p, op |-> "GetLoggerProvider", val |-> loggerProvider,
               busy |-> FALSE]
    /\ UNCHANGED <<pc, panicked, loc, once, hist, loggingVars, notLogging>>

\* ------------------------------------------- the provider lifecycle (Spec)
Tenants     == {"t1"}
Stages      == {"source"}
PluginTypes == {"mysql"}
ErrorTypes  == {"connection_refused"}
Counts      == {100}
Latencies   == {5}
Deltas      == {-2, 5}

MetricsInit(p) ==
    \/ \E e \in Endpoints : InitMetrics_Call(p, e)
    \/ InitMetrics_Do(p)
    \/ InitMetrics_Lock(p)
    \/ InitMetrics_Check(p)
    \/ initMetricsInternal_Resource(p)
    \/ initMetricsInternal_Exporter(p)
    \/ initMetricsInternal_SetProvider(p)
    \/ initMetricsInternal_Meter(p)
    \/ initMetricsInternal_Instrument(p)
    \/ initMetricsInternal_Return(p)
    \/ InitMetrics_Store(p)
    \/ InitMetrics_Unlock(p)
    \/ InitMetrics_Return(p)

MetricsRecord(p) ==
    \/ \E t \in Tenants, s \in Stages, y \in PluginTypes, n \in Counts :
          RecordBatchSent_Call(p, t, s, y, n)
    \/ RecordBatchSent_Batches(p)
    \/ RecordBatchSent_Records(p)
    \/ \E t \in Tenants, s \in Stages, y \in PluginTypes, n \in Counts :
          RecordBatchReceived_Call(p, t, s, y, n)
    \/ RecordBatchReceived_Batches(p)
    \/ RecordBatchReceived_Records(p)
    \/ \E s \in Stages, l \in Latencies : RecordStageLatency(p, s, l)
    \/ \E l \in Latencies : RecordAckLatency(p, l)
    \/ \E t \in Tenants, s \in Stages, e \in ErrorTypes : RecordError(p, t, s, e)
    \/ \E s \in Stages, d \in Deltas : UpdateWindowBacklog(p, s, d)
    \/ \E y \in PluginTypes, d \in Deltas : UpdateSessionsActive(p, y, d)
    \/ \E d \in Deltas : UpdateInFlightBatches(p, d)

LoggingInit(p) ==
    \/ \E e \in Endpoints : InitLogging_Call(p, e)
    \/ InitLogging_Do(p)
    \/ InitLogging_Lock(p)
    \/ InitLogging_Check(p)
    \/ initLoggingInternal_Resource(p)
    \/ initLoggingInternal_Exporter(p)
    \/ initLoggingInternal_Provider(p)
    \/ initLoggingInternal_SetProvider(p)
    \/ InitLogging_Store(p)
    \/ InitLogging_Unlock(p)
    \/ InitLogging_Return(p)

LoggingUse(p) ==
    \/ ShutdownLogging(p)
    \/ GetLoggerProvider(p)

\* Metrics and logging, every operation.
Next ==
    \E p \in Procs :
        MetricsInit(p) \/ MetricsRecord(p) \/ LoggingInit(p) \/ LoggingUse(p)

Spec == Init /\ [][Next]_vars

\* The two gated initialisations alone.
NextGates == \E p \in Procs : MetricsInit(p) \/ LoggingInit(p)

SpecGates == Init /\ [][NextGates]_vars

\* ------------------------------------------------ batch counters (SpecBatches)
BatchTenants == {"t1", "t2"}

NextBatches ==
    \E p \in Procs :
        \/ MetricsInit(p)
        \/ \E t \in BatchTenants, n \in Counts :
              RecordBatchSent_Call(p, t, "source", "mysql", n)
        \/ RecordBatchSent_Batches(p)
        \/ RecordBatchSent_Records(p)
        \/ \E t \in BatchTenants, n \in Counts :
              RecordBatchReceived_Call(p, t, "source", "mysql", n)
        \/ RecordBatchReceived_Batches(p)
        \/ RecordBatchReceived_Records(p)

SpecBatches == Init /\ [][NextBatches]_vars

\* ------------------------------------------------------ gauges (SpecGauges)
GaugeStages      == {"processor-1", "sink-1"}
GaugePluginTypes == {"source", "sink"}

NextGauges ==
    \E p \in Procs :
        \/ MetricsInit(p)
        \/ \E s \in GaugeStages, d \in Deltas : UpdateWindowBacklog(p, s, d)
        \/ \E y \in GaugePluginTypes, d \in Deltas : UpdateSessionsActive(p, y, d)
        \/ \E d \in Deltas : UpdateInFlightBatches(p, d)

SpecGauges == Init /\ [][NextGauges]_vars

\* ------------------------------------------------ log shutdown (SpecShutdown)
NextShutdown == \E p \in Procs : LoggingInit(p) \/ ShutdownLogging(p)

SpecShutdown == Init /\ [][NextShutdown]_vars

\* ------------------------------------------------------------------ tracing
MaxTraceCalls == 4

\* TraceID.String() / SpanID.String(): lower-case hex of fixed width.
HexDigits == <<"0", "1", "2", "3", "4", "5", "6", "7",
               "8", "9", "a", "b", "c", "d", "e", "f">>

RECURSIVE Hex(_, _)
Hex(n, w) == IF w = 0 THEN << >> ELSE Append(Hex(n \div 16, w - 1), HexDigits[(n % 16) + 1])

IsHex(str) == \A i \in 1 .. Len(str) : \E d \in 1 .. 16 : HexDigits[d] = str[i]

DigitValue(c) == (CHOOSE d \in 1 .. 16 : HexDigits[d] = c) - 1

RECURSIVE Unhex(_)
Unhex(str) ==
    IF str = << >> THEN 0
    ELSE 16 * Unhex(SubSeq(str, 1, Len(str) - 1)) + DigitValue(str[Len(str)])

\* propagation.TraceContext.Inject: nothing for an invalid span context, else
\* traceparent = version "-" trace-id "-" span-id "-" flags.
TraceParent(sc) ==
    << <<"0", "0">>, Hex(sc.tid, 32), Hex(sc.sid, 16),
       IF sc.sampled THEN <<"0", "1">> ELSE <<"0", "0">> >>

\* A carrier that keeps only the entry set last.
PutAlone(map, k, v) == (k :> v)

\* MapCarrier.Set
Put(map, k, v) == IF k \in DOMAIN map THEN [map EXCEPT ![k] = v] ELSE map @@ (k :> v)

\* A carrier that answers a missing key with whatever entry it holds.
GetAnyKey(map, k) ==
    IF k \in DOMAIN map THEN map[k]
    ELSE IF DOMAIN map # {} THEN map[CHOOSE x \in DOMAIN map : TRUE] ELSE << >>

\* MapCarrier.Get: "" for a missing key.
Get(map, k) == IF k \in DOMAIN map THEN map[k] ELSE << >>

TraceContextInject(c, map) ==
    IF IsValid(c.sc) THEN Put(map, "traceparent", TraceParent(c.sc)) ELSE map

\* propagation.Baggage.Inject: the baggage header, if the context has baggage.
BaggageInject(c, map) ==
    IF c.bag # "" THEN Put(map, "baggage", c.bag) ELSE map

\* propagation.TraceContext.extract: the span context a traceparent header
\* names, the zero span context if the header is absent or malformed.
ParseTraceParent(h) ==
    IF /\ Len(h) = 4
       /\ Len(h[1]) = 2 /\ IsHex(h[1]) /\ h[1] = <<"0", "0">>
       /\ Len(h[2]) = 32 /\ IsHex(h[2])
       /\ Len(h[3]) = 16 /\ IsHex(h[3])
       /\ Len(h[4]) = 2 /\ IsHex(h[4])
    THEN [tid |-> Unhex(h[2]), sid |-> Unhex(h[3]),
          sampled |-> (Unhex(h[4]) % 2 = 1), remote |-> TRUE]
    ELSE NoSC

\* An extraction that overwrites the identity even from an unusable carrier.
TraceContextExtractAlways(c, map) ==
    [c EXCEPT !.sc = ParseTraceParent(Get(map, "traceparent"))]

\* propagation.TraceContext.Extract: the input context unless the carrier
\* names a valid span context.
TraceContextExtract(c, map) ==
    LET sc == ParseTraceParent(Get(map, "traceparent")) IN
    IF IsValid(sc) THEN [c EXCEPT !.sc = sc] ELSE c

\* propagation.Baggage.Extract
BaggageExtract(c, map) ==
    IF Get(map, "baggage") # << >> THEN [c EXCEPT !.bag = Get(map, "baggage")] ELSE c

\* The composite propagator InitTracing installs runs TraceContext, then
\* Baggage; the propagator otel starts with does nothing.
PropagatorInject(prop, c, map) ==
    IF prop = "composite" THEN BaggageInject(c, TraceContextInject(c, map)) ELSE map

PropagatorExtract(prop, c, map) ==
    IF prop = "composite" THEN BaggageExtract(TraceContextExtract(c, map), map) ELSE c

\* The header names the composite propagator reads and writes
\* (TraceContext: traceparent, tracestate; Baggage: baggage).
PropagationKeys == {"traceparent", "tracestate", "baggage"}

\* otel.Tracer("planx"): the registered provider's tracer, or a tracer of the
\* default provider, which forwards once a provider is registered.
OtelTracer == IF globalTP # 0 THEN SdkTracer(globalTP) ELSE GlobalTracer

\* Whether Start on tracer t reaches an SDK tracer.
Recording(t) == t.kind = "sdk" \/ (t.kind = "global" /\ tpDelegate # 0)

\* A tracer that keeps the parent's span id.
StartedKeepSpanID(t, parent) ==
    IF Recording(t)
    THEN [parent EXCEPT !.sc =
             [tid |-> IF IsValid(parent.sc) THEN parent.sc.tid ELSE minted + 1,
              sid |-> IF IsValid(parent.sc) THEN parent.sc.sid ELSE minted + 2,
              sampled |-> TRUE, remote |-> FALSE]]
    ELSE [parent EXCEPT !.sc = parent.sc]

\* A tracer that starts no trace of its own.
StartedNoRoot(t, parent) ==
    IF Recording(t) /\ IsValid(parent.sc)
    THEN [parent EXCEPT !.sc =
             [tid |-> parent.sc.tid, sid |-> minted + 2,
              sampled |-> TRUE, remote |-> FALSE]]
    ELSE [parent EXCEPT !.sc = parent.sc]

\* Tracer.Start(ctx, name, ...): the context of the new span.  The SDK
\* (AlwaysSample) keeps a valid parent's trace id, else mints one, and mints
\* the span id; the default tracer without a provider returns a non-recording
\* span that carries the parent's span context.
Started(t, parent) ==
    IF Recording(t)
    THEN [parent EXCEPT !.sc =
             [tid |-> IF IsValid(parent.sc) THEN parent.sc.tid ELSE minted + 1,
              sid |-> minted + 2, sampled |-> TRUE, remote |-> FALSE]]
    ELSE [parent EXCEPT !.sc = parent.sc]

SpanNames == {"test-span", "source.read", "processor.process", "sink.write",
              "engine.route"}

\* func InitTracing(ctx, cfg) error, up to the provider it builds:
\*   res, err := resource.New(...);                  if err != nil { return err }
\*   exporter, err = otlptrace.New(...) | stdouttrace.New();
\*                                                   if err != nil { return err }
\*   provider := sdktrace.NewTracerProvider(...)
\* All of it is local to the call, so it is one step.
InitTracing_Call(p, endpoint) ==
    /\ MayCall(MaxTraceCalls, p)
    /\ Called(p)
    /\ \E e \in {"nil", "ErrResource", "ErrExporter"} :
          /\ pc' = [pc EXCEPT ![p] = IF e = "nil" THEN "InitTracing:258"
                                                  ELSE "InitTracing:ret"]
          /\ loc' = [loc EXCEPT ![p] =
                        [NoLoc EXCEPT !.err = e,
                                      !.tp = IF e = "nil" THEN tpCount + 1 ELSE 0]]
          /\ tpCount' = IF e = "nil" THEN tpCount + 1 ELSE tpCount
          /\ hist' = [hist EXCEPT
                 !["tracing"].inits = @ + 1,
                 !["tracing"].setups = @ + 1,
                 !["tracing"].outcome = IF @ = "none" /\ e # "nil" THEN e ELSE @]
    /\ ret' = NoRet
    /\ UNCHANGED <<panicked, once, tracer, globalTP, tpDelegate, propagator, minted,
                   ctx, carrier, notTracing>>

\* otel.SetTracerProvider(provider): the first registration also becomes the
\* delegate of the default provider's tracers.
InitTracing_SetProvider(p) ==
    /\ Step(p, "InitTracing:258", "InitTracing:259")
    /\ globalTP' = loc[p].tp
    /\ tpDelegate' = IF tpDelegate = 0 THEN loc[p].tp ELSE tpDelegate
    /\ UNCHANGED <<loc, ret, once, hist, tracer, propagator, tpCount, minted, ctx,
                   carrier, notTracing>>

\* otel.SetTextMapPropagator(NewCompositeTextMapPropagator(TraceContext{}, Baggage{}))
InitTracing_SetPropagator(p) ==
    /\ Step(p, "InitTracing:259", "InitTracing:264")
    /\ propagator' = "composite"
    /\ UNCHANGED <<loc, ret, once, hist, tracer, globalTP, tpDelegate, tpCount, minted,
                   ctx, carrier, notTracing>>

\* tracer = provider.Tracer("planx"); return nil
InitTracing_Tracer(p) ==
    /\ SetupOk(p, "tracing", "InitTracing:264", "InitTracing:ret")
    /\ tracer' = SdkTracer(loc[p].tp)
    /\ UNCHANGED <<globalTP, tpDelegate, propagator, tpCount, minted, ctx, carrier,
                   notTracing>>

InitTracing_Return(p) ==
    /\ InitReturn(p, "tracing", "InitTracing:ret", "InitTracing")
    /\ UNCHANGED <<tracingVars, notTracing>>

\* func Tracer() trace.Tracer, called directly ...
Tracer_Call(p) ==
    /\ BeginWithin(MaxTraceCalls, p, "Tracer:271", "", [op |-> "Tracer"])
    /\ UNCHANGED <<hist, tracingVars, notTracing>>

\* ... or by func StartSpan(ctx, name, attrs...), itself called directly or by
\* StartSourceReadSpan, StartProcessorSpan, StartSinkWriteSpan, StartRouteSpan.
StartSpan_Call(p, name) ==
    /\ name \in SpanNames
    /\ BeginWithin(MaxTraceCalls, p, "Tracer:271", "", [op |-> "StartSpan"])
    /\ UNCHANGED <<hist, tracingVars, notTracing>>

StartSourceReadSpan_Call(p) == StartSpan_Call(p, "source.read")

StartProcessorSpan_Call(p) == StartSpan_Call(p, "processor.process")

StartSinkWriteSpan_Call(p) == StartSpan_Call(p, "sink.write")

StartRouteSpan_Call(p) == StartSpan_Call(p, "engine.route")

\* if tracer == nil
Tracer_Check(p) ==
    /\ Step(p, "Tracer:271", IF tracer = NilTracer THEN "Tracer:272" ELSE "Tracer:274")
    /\ UNCHANGED <<loc, ret, once, hist, tracingVars, notTracing>>

\* tracer = otel.Tracer("planx")
Tracer_Default(p) ==
    /\ Step(p, "Tracer:272", "Tracer:274")
    /\ tracer' = OtelTracer
    /\ UNCHANGED <<loc, ret, once, hist, globalTP, tpDelegate, propagator, tpCount,
                   minted, ctx, carrier, notTracing>>

\* return tracer
Tracer_Return(p) ==
    /\ pc[p] = "Tracer:274"
    /\ loc[p].args.op = "Tracer"
    /\ Return(p, "Tracer:274", "Tracer", tracer)
    /\ UNCHANGED <<hist, tracingVars, notTracing>>

\* return Tracer().Start(ctx, name, trace.WithAttributes(attrs...))
StartSpan_Start(p) ==
    /\ pc[p] = "Tracer:274"
    /\ loc[p].args.op = "StartSpan"
    /\ Return(p, "Tracer:274", "StartSpan",
              [parent |-> ctx[p], child |-> Started(tracer, ctx[p]),
               provider |-> globalTP])
    /\ ctx' = [ctx EXCEPT ![p] = Started(tracer, ctx[p])]
    /\ minted' = IF Recording(tracer) THEN minted + 2 ELSE minted
    /\ UNCHANGED <<hist, tracer, globalTP, tpDelegate, propagator, tpCount, carrier,
                   notTracing>>

\* ctx := context.Background()
NewContext(p) ==
    /\ BeginWithin(MaxTraceCalls, p, "idle", "", NoArgs)
    /\ ctx[p] # Background
    /\ ctx' = [ctx EXCEPT ![p] = Background]
    /\ UNCHANGED <<hist, tracer, globalTP, tpDelegate, propagator, tpCount, minted,
                   carrier, notTracing>>

\* carrier := the given map
NewCarrier(p, map) ==
    /\ BeginWithin(MaxTraceCalls, p, "idle", "", NoArgs)
    /\ carrier[p] # [map |-> map, src |-> NoSC]
    /\ carrier' = [carrier EXCEPT ![p] = [map |-> map, src |-> NoSC]]
    /\ UNCHANGED <<hist, tracer, globalTP, tpDelegate, propagator, tpCount, minted, ctx,
                   notTracing>>

\* func InjectTraceContext(ctx, carrier)
InjectTraceContext(p) ==
    /\ BeginWithin(MaxTraceCalls, p, "idle", "", NoArgs)
    /\ carrier' = [carrier EXCEPT ![p] =
                      [map |-> PropagatorInject(propagator, ctx[p], @.map),
                       src |-> IF @.map = EmptyMap THEN ctx[p].sc ELSE NoSC]]
    /\ UNCHANGED <<hist, tracer, globalTP, tpDelegate, propagator, tpCount, minted, ctx,
                   notTracing>>

\* func ExtractTraceContext(ctx, carrier) context.Context, on the goroutine's
\* context or on a fresh context.Background()
ExtractTraceContext(p, fresh) ==
    LET in  == IF fresh THEN Background ELSE ctx[p]
        out == PropagatorExtract(propagator, in, carrier[p].map) IN
    /\ MayCall(MaxTraceCalls, p)
    /\ Called(p)
    /\ ret' = [proc |-> p, op |-> "ExtractTraceContext", busy |-> FALSE,
               val |-> [in |-> in, carrier |-> carrier[p], out |-> out]]
    /\ ctx' = [ctx EXCEPT ![p] = out]
    /\ UNCHANGED <<pc, panicked, loc, once, hist, tracer, globalTP, tpDelegate,
                   propagator, tpCount, minted, carrier, notTracing>>

\* ----------------------------------------------------- tracing (SpecTracing)

\* A traceparent header a remote peer wrote.
RemoteParent ==
    TraceParent([tid |-> 171, sid |-> 205, sampled |-> TRUE, remote |-> TRUE])

CarrierInputs == {EmptyMap, ("traceparent" :> RemoteParent)}

NextTracing ==
    \E p \in Procs :
        \/ \E e \in Endpoints : InitTracing_Call(p, e)
        \/ InitTracing_SetProvider(p)
        \/ InitTracing_SetPropagator(p)
        \/ InitTracing_Tracer(p)
        \/ InitTracing_Return(p)
        \/ Tracer_Call(p)
        \/ StartSpan_Call(p, "test-span")
        \/ StartSourceReadSpan_Call(p)
        \/ StartProcessorSpan_Call(p)
        \/ StartSinkWriteSpan_Call(p)
        \/ StartRouteSpan_Call(p)
        \/ Tracer_Check(p)
        \/ Tracer_Default(p)
        \/ Tracer_Return(p)
        \/ StartSpan_Start(p)
        \/ NewContext(p)
        \/ \E m \in CarrierInputs : NewCarrier(p, m)
        \/ InjectTraceContext(p)
        \/ \E fresh \in BOOLEAN : ExtractTraceContext(p, fresh)

SpecTracing == Init /\ [][NextTracing]_vars

\* ----------------------------------------------------- carriers (SpecCarrier)

\* Carriers with entries under keys the propagator does not know, one of them
\* a well-formed traceparent value under such a key.
UnrelatedEntry == ("x-request-id" :> RemoteParent)

WideCarrierInputs ==
    {EmptyMap, UnrelatedEntry, UnrelatedEntry @@ ("traceparent" :> RemoteParent)}

NextCarrier ==
    \E p \in Procs :
        \/ InitTracing_Call(p, "")
        \/ InitTracing_SetProvider(p)
        \/ InitTracing_SetPropagator(p)
        \/ InitTracing_Tracer(p)
        \/ InitTracing_Return(p)
        \/ StartSpan_Call(p, "test-span")
        \/ Tracer_Check(p)
        \/ Tracer_Default(p)
        \/ StartSpan_Start(p)
        \/ NewContext(p)
        \/ \E m \in WideCarrierInputs : NewCarrier(p, m)
        \/ InjectTraceContext(p)
        \/ \E fresh \in BOOLEAN : ExtractTraceContext(p, fresh)

SpecCarrier == Init /\ [][NextCarrier]_vars

\* ------------------------------------------------------------------- logger
\* zerolog.Level
TraceLevel == -1
DebugLevel == 0
InfoLevel  == 1
WarnLevel  == 2
ErrorLevel == 3
Disabled   == 7

\* zerolog.ParseLevel: the level a name stands for, or an error.
ParseLevel(name) ==
    CASE name = "trace"    -> [level |-> TraceLevel, err |-> "nil"]
      [] name = "debug"    -> [level |-> DebugLevel, err |-> "nil"]
      [] name = "info"     -> [level |-> InfoLevel,  err |-> "nil"]
      [] name = "warn"     -> [level |-> WarnLevel,  err |-> "nil"]
      [] name = "error"    -> [level |-> ErrorLevel, err |-> "nil"]
      [] name = "disabled" -> [level |-> Disabled,   err |-> "nil"]
      [] OTHER             -> [level |-> 6,          err |-> "ErrUnknownLevel"]

\* func DefaultConfig() Config
DefaultConfig ==
    [Level |-> "info", Pretty |-> FALSE, Output |-> "stdout", ServiceName |-> "planx"]

\* level, err := zerolog.ParseLevel(cfg.Level); if err != nil { level = InfoLevel }
ConfiguredLevel(c) ==
    IF ParseLevel(c.Level).err # "nil" THEN InfoLevel ELSE ParseLevel(c.Level).level

\* zerolog.New(output).With().Timestamp().Str("service", cfg.ServiceName).Logger():
\* a logger on the (console-wrapped, if Pretty) output; New sets its own level
\* to TraceLevel.
NewLogger(c) ==
    [w |-> IF c.Pretty THEN <<"console", c.Output>> ELSE <<"raw", c.Output>>,
     level |-> TraceLevel, service |-> c.ServiceName]

\* func Init(cfg Config) { once.Do(...) }
Init_Call(p, c) ==
    /\ BeginInit(MaxCalls, p, "logger", "Init:45", "", [via |-> "Init", cfg |-> c])
    /\ UNCHANGED <<loggerVars, notLogger>>

Init_Do(p) ==
    /\ OnceDo(p, "once", "Init:45", "Init:lock", "Init:68")
    /\ UNCHANGED <<loggerVars, notLogger>>

Init_Lock(p) ==
    /\ OnceLock(p, "once", "Init:lock", "Init:check")
    /\ UNCHANGED <<loggerVars, notLogger>>

Init_Check(p) ==
    /\ OnceCheck(p, "once", "Init:check", "Init:51", "Init:unlock")
    /\ UNCHANGED <<loggerVars, notLogger>>

\* zerolog.SetGlobalLevel(level)
Init_SetGlobalLevel(p) ==
    /\ Step(p, "Init:51", "Init:62")
    /\ zlGlobalLevel' = ConfiguredLevel(loc[p].args.cfg)
    /\ hist' = [hist EXCEPT !["logger"].setups = @ + 1]
    /\ UNCHANGED <<loc, ret, once, globalLogger, notLogger>>

\* globalLogger = zerolog.New(output)...Logger()
Init_SetLogger(p) ==
    /\ SetupOk(p, "logger", "Init:62", "Init:67")
    /\ globalLogger' = NewLogger(loc[p].args.cfg)
    /\ UNCHANGED <<zlGlobalLevel, notLogger>>

Init_Store(p) ==
    /\ OnceStore(p, "once", "Init:67", "Init:unlock")
    /\ UNCHANGED <<loggerVars, notLogger>>

Init_Unlock(p) ==
    /\ OnceUnlock(p, "once", "Init:unlock", "Init:68")
    /\ UNCHANGED <<loggerVars, notLogger>>

\* Init returns, to its caller or into Get.
Init_Return(p) ==
    /\ pc[p] = "Init:68"
    /\ IF loc[p].args.via = "Init"
       THEN /\ Return(p, "Init:68", "Init", "void")
            /\ hist' = [hist EXCEPT !["logger"].returned = @ + 1]
       ELSE /\ Step(p, "Init:68", "Get:75")
            /\ UNCHANGED <<loc, ret, once, hist>>
    /\ UNCHANGED <<loggerVars, notLogger>>

\* func Get() *zerolog.Logger, called directly or by Debug, Info, Warn, Error,
\* Fatal, WithContext and, through it, DebugCtx, InfoCtx, WarnCtx, ErrorCtx.
Get_Call(p, via) ==
    /\ Begin(p, "Get:72", "", [via |-> via, cfg |-> DefaultConfig])
    /\ UNCHANGED <<loggerVars, notLogger>>

\* if globalLogger.GetLevel() == zerolog.Disabled { Init(DefaultConfig()) }
Get_Check(p) ==
    /\ Step(p, "Get:72", IF globalLogger.level = Disabled THEN "Init:45" ELSE "Get:75")
    /\ UNCHANGED <<loc, ret, once, hist, loggerVars, notLogger>>

\* The helpers that go through WithContext.
ContextHelpers == {"WithContext", "DebugCtx", "InfoCtx", "WarnCtx", "ErrorCtx"}

\* A WithContext that gives no fields for a span that has ended.
WithFieldsLive(l, c) ==
    IF IsSdkSpan(c.sc) /\ SpanState(spans, c.sc.sid).ended THEN l
    ELSE ("span_id" :> Hex(c.sc.sid, 16)) @@ ("trace_id" :> Hex(c.sc.tid, 32)) @@ l

\* A WithContext that attaches the fields whether or not there is an identity.
WithFieldsAlways(l, c) ==
    ("span_id" :> Hex(c.sc.sid, 16)) @@ ("trace_id" :> Hex(c.sc.tid, 32)) @@ l

\* A WithContext that prefers the values ContextWithTrace stored.
WithFieldsLegacy(l, c) ==
    LET has(k) == k \in DOMAIN c.values
        withTrace ==
            IF has("trace_id") THEN ("trace_id" :> c.values["trace_id"]) @@ l
            ELSE IF HasTraceID(c.sc) THEN ("trace_id" :> Hex(c.sc.tid, 32)) @@ l
            ELSE l IN
    IF has("span_id") THEN ("span_id" :> c.values["span_id"]) @@ withTrace
    ELSE IF HasSpanID(c.sc) THEN ("span_id" :> Hex(c.sc.sid, 16)) @@ withTrace
    ELSE withTrace

\* WithContext, after Get: span := trace.SpanFromContext(ctx);
\*   if span.SpanContext().HasTraceID() { l = l.With().Str("trace_id", ...) }
\*   if span.SpanContext().HasSpanID()  { l = l.With().Str("span_id", ...) }
WithFields(l, c) ==
    LET withTrace == IF HasTraceID(c.sc)
                     THEN ("trace_id" :> Hex(c.sc.tid, 32)) @@ l ELSE l IN
    IF HasSpanID(c.sc) THEN ("span_id" :> Hex(c.sc.sid, 16)) @@ withTrace ELSE withTrace

\* return &globalLogger, to the caller or into WithContext, which returns the
\* logger with the fields of its context.
Get_Return(p) ==
    /\ pc[p] = "Get:75"
    /\ Return(p, "Get:75", loc[p].args.via,
              IF loc[p].args.via \in ContextHelpers
              THEN WithFields(globalLogger, ctx[p]) ELSE globalLogger)
    /\ UNCHANGED <<hist, loggerVars, notLogger>>

\* ------------------------------------------------------- logger (SpecLogger)
LoggerConfigs ==
    { DefaultConfig,
      [Level |-> "debug", Pretty |-> FALSE, Output |-> "buf", ServiceName |-> "test-service"],
      [Level |-> "verbose", Pretty |-> TRUE, Output |-> "stdout", ServiceName |-> "planx"],
      [Level |-> "disabled", Pretty |-> FALSE, Output |-> "buf", ServiceName |-> "quiet"] }

LoggerAccessors ==
    {"Get", "Debug", "Info", "Warn", "Error", "WithContext",
     "DebugCtx", "InfoCtx", "WarnCtx", "ErrorCtx"}

NextLogger ==
    \E p \in Procs :
        \/ \E c \in LoggerConfigs : Init_Call(p, c)
        \/ Init_Do(p)
        \/ Init_Lock(p)
        \/ Init_Check(p)
        \/ Init_SetGlobalLevel(p)
        \/ Init_SetLogger(p)
        \/ Init_Store(p)
        \/ Init_Unlock(p)
        \/ Init_Return(p)
        \/ \E via \in LoggerAccessors : Get_Call(p, via)
        \/ Get_Check(p)
        \/ Get_Return(p)

SpecLogger == Init /\ [][NextLogger]_vars

\* -------------------------------------------------------- spans (SpecSpans)

\* span.IsRecording(): an SDK span that has not ended.
IsRecordingEver(sc) == IsSdkSpan(sc)

IsRecording(sc) == IsSdkSpan(sc) /\ ~SpanState(spans, sc.sid).ended

Stored(sid, sp) ==
    IF sid \in DOMAIN spans THEN [spans EXCEPT ![sid] = sp] ELSE spans @@ (sid :> sp)

\* An End that stamps the end time every time.
SpanEndedAgain(sp, now) == [sp EXCEPT !.ended = TRUE, !.endTime = now]

\* span.End(): the first End fixes the end time, a later one returns at once.
SpanEnded(sp, now) ==
    IF sp.ended THEN sp ELSE [sp EXCEPT !.ended = TRUE, !.endTime = now]

\* codes.Unset < codes.Error < codes.Ok
StatusRank(code) == CASE code = "Unset" -> 0 [] code = "Error" -> 1 [] code = "Ok" -> 2

\* A SetStatus that also ends the span.
StatusSetEnds(sp, code, desc) ==
    [sp EXCEPT !.status = code, !.desc = desc, !.ended = TRUE]

\* span.SetStatus(code, description): ignored on an ended span and when the
\* span already has a status of higher rank.
StatusSet(sp, code, desc) ==
    IF sp.ended \/ StatusRank(sp.status) > StatusRank(code) THEN sp
    ELSE [sp EXCEPT !.status = code, !.desc = desc]

\* span.RecordError(err): an "exception" event, unless err is nil or the span
\* has ended.
ErrorRecorded(sp, err) ==
    IF sp.ended \/ err = "nil" THEN sp ELSE [sp EXCEPT !.events = Append(@, "exception")]

\* span.End() on the span of the goroutine's context (the span StartSpan
\* returned with it); the logical time of the call is the end time.
Span_End(p) ==
    LET sc == ctx[p].sc IN
    /\ MayCall(MaxTraceCalls, p)
    /\ Called(p)
    /\ spans' = IF IsSdkSpan(sc)
                THEN Stored(sc.sid, SpanEnded(SpanState(spans, sc.sid), calls + 1))
                ELSE spans
    /\ ret' = [proc |-> p, op |-> "End", busy |-> FALSE,
               val |-> [sc |-> sc, before |-> spans, after |-> spans']]
    /\ UNCHANGED <<pc, panicked, loc, once, hist, notSpans>>

\* func RecordSpanError(span, err) { span.RecordError(err);
\*                                   span.SetStatus(codes.Error, err.Error()) }
\* err.Error() on a nil error is a method call through a nil interface.
RecordSpanError(p, err) ==
    LET sc == ctx[p].sc
        sp == SpanState(spans, sc.sid) IN
    /\ MayCall(MaxTraceCalls, p)
    /\ Called(p)
    /\ IF err = "nil"
       THEN /\ panicked' = TRUE
            /\ pc' = [pc EXCEPT ![p] = "RecordSpanError:357"]
            /\ UNCHANGED <<spans, ret>>
       ELSE /\ spans' = IF IsRecording(sc)
                        THEN Stored(sc.sid,
                                    [StatusSet(ErrorRecorded(sp, err), "Error", err)
                                        EXCEPT !.reported = TRUE])
                        ELSE spans
            /\ ret' = [proc |-> p, op |-> "RecordSpanError", busy |-> FALSE,
                       val |-> [sc |-> sc, err |-> err, before |-> spans,
                                after |-> spans']]
            /\ UNCHANGED <<pc, panicked>>
    /\ UNCHANGED <<loc, once, hist, notSpans>>

\* func AddSpanEvent(ctx, msg) { span := trace.SpanFromContext(ctx);
\*                               if span.IsRecording() { span.AddEvent(msg) } }
AddSpanEvent(p, msg) ==
    LET sc == ctx[p].sc
        sp == SpanState(spans, sc.sid) IN
    /\ MayCall(MaxTraceCalls, p)
    /\ Called(p)
    /\ spans' = IF IsRecording(sc)
                THEN Stored(sc.sid, [sp EXCEPT !.events = Append(@, msg)])
                ELSE spans
    /\ ret' = [proc |-> p, op |-> "AddSpanEvent", busy |-> FALSE,
               val |-> [sc |-> sc, msg |-> msg, before |-> spans, after |-> spans']]
    /\ UNCHANGED <<pc, panicked, loc, once, hist, notSpans>>

\* func WithContext(ctx) *zerolog.Logger { l := Get().With().Logger(); ... },
\* called directly or by DebugCtx, InfoCtx, WarnCtx, ErrorCtx.
WithContext_Call(p, via) ==
    /\ via \in ContextHelpers
    /\ BeginWithin(MaxTraceCalls, p, "Get:72", "", [via |-> via, cfg |-> DefaultConfig])
    /\ UNCHANGED <<hist, loggerVars, notLogger>>

Errors   == {"nil", "context canceled"}
Messages == {"test event"}

NextSpans ==
    \E p \in Procs :
        \/ InitTracing_Call(p, "")
        \/ InitTracing_SetProvider(p)
        \/ InitTracing_SetPropagator(p)
        \/ InitTracing_Tracer(p)
        \/ InitTracing_Return(p)
        \/ StartSpan_Call(p, "test-span")
        \/ Tracer_Check(p)
        \/ Tracer_Default(p)
        \/ StartSpan_Start(p)
        \/ Span_End(p)
        \/ \E err \in Errors : RecordSpanError(p, err)
        \/ \E msg \in Messages : AddSpanEvent(p, msg)
        \/ \E via \in {"WithContext", "InfoCtx"} : WithContext_Call(p, via)
        \/ Get_Check(p)
        \/ Get_Return(p)
        \/ NewCarrier(p, "traceparent" :> RemoteParent)
        \/ ExtractTraceContext(p, TRUE)

SpecSpans == Init /\ [][NextSpans]_vars

\* ------------------------------------- the three initialisations (SpecInits)
\* Every Init, with the stdout exporter for metrics and tracing and the OTLP
\* exporter for logging; all of them within the same call budget.
NextInits ==
    \E p \in Procs :
        \/ InitMetrics_Call(p, "")
        \/ InitMetrics_Do(p)
        \/ InitMetrics_Lock(p)
        \/ InitMetrics_Check(p)
        \/ initMetricsInternal_Resource(p)
        \/ initMetricsInternal_Exporter(p)
        \/ initMetricsInternal_SetProvider(p)
        \/ initMetricsInternal_Meter(p)
        \/ initMetricsInternal_Instrument(p)
        \/ initMetricsInternal_Return(p)
        \/ InitMetrics_Store(p)
        \/ InitMetrics_Unlock(p)
        \/ InitMetrics_Return(p)
        \/ InitLogging_Call(p, "collector:4317")
        \/ InitLogging_Do(p)
        \/ InitLogging_Lock(p)
        \/ InitLogging_Check(p)
        \/ initLoggingInternal_Resource(p)
        \/ initLoggingInternal_Exporter(p)
        \/ initLoggingInternal_Provider(p)
        \/ initLoggingInternal_SetProvider(p)
        \/ InitLogging_Store(p)
        \/ InitLogging_Unlock(p)
        \/ InitLogging_Return(p)
        \/ calls < MaxCalls /\ InitTracing_Call(p, "")
        \/ InitTracing_SetProvider(p)
        \/ InitTracing_SetPropagator(p)
        \/ InitTracing_Tracer(p)
        \/ InitTracing_Return(p)

SpecInits == Init /\ [][NextInits]_vars

\* ---------------------------------------- legacy trace values (SpecLegacy)

\* func ContextWithTrace(ctx, traceID, spanID) context.Context:
\*   ctx = context.WithValue(ctx, traceIDKey, traceID)
\*   ctx = context.WithValue(ctx, spanIDKey, spanID)
ContextWithTrace(p, traceID, spanID) ==
    /\ BeginWithin(MaxTraceCalls, p, "idle", "", NoArgs)
    /\ ctx' = [ctx EXCEPT ![p].values = ("span_id" :> spanID) @@ ("trace_id" :> traceID)]
    /\ UNCHANGED <<hist, tracer, globalTP, tpDelegate, propagator, tpCount, minted,
                   carrier, notTracing>>

LegacyTraceID == <<"t", "-", "1">>
LegacySpanID  == <<"s", "-", "1">>

NextLegacy ==
    \E p \in Procs :
        \/ InitTracing_Call(p, "")
        \/ InitTracing_SetProvider(p)
        \/ InitTracing_SetPropagator(p)
        \/ InitTracing_Tracer(p)
        \/ InitTracing_Return(p)
        \/ StartSpan_Call(p, "test-span")
        \/ Tracer_Check(p)
        \/ Tracer_Default(p)
        \/ StartSpan_Start(p)
        \/ ContextWithTrace(p, LegacyTraceID, LegacySpanID)
        \/ WithContext_Call(p, "WithContext")
        \/ Get_Check(p)
        \/ Get_Return(p)

SpecLegacy == Init /\ [][NextLegacy]_vars

\* ==================================================================== claims
Failed(s) == hist[s].outcome \notin {"none", "nil"}

SubsystemOf(op) ==
    CASE op = "InitMetrics" -> "metrics"
      [] op = "InitLogging" -> "logging"
      [] op = "InitTracing" -> "tracing"

\* C1: for tracing, metrics and logging alike, however many Init calls are
\* made, the setup body runs once in total: never twice, and once as soon as
\* a call has returned.
C1_SetupExactlyOnce ==
    \A s \in {"tracing", "metrics", "logging"} :
        /\ hist[s].setups <= 1
        /\ hist[s].returned > 0 => hist[s].setups = 1

\* C2: every Init call returns what the first setup of its subsystem yielded:
\* its error if it failed, nil if it succeeded.
C2_SameOutcome ==
    ret.op \in {"InitMetrics", "InitLogging"} =>
        ret.val = hist[SubsystemOf(ret.op)].outcome

\* C3: while InitMetrics has never been called, no metric recorder panics and
\* none changes any state.
C3_RecorderBeforeInitIsNoOp ==
    hist["metrics"].inits = 0 => (~panicked /\ points = << >>)

\* C4: once an InitMetrics call has returned from a setup that failed, no
\* later operation on the metrics subsystem panics.
C4_NoPanicAfterFailedInit ==
    (Failed("metrics") /\ hist["metrics"].returned > 0) => ~panicked

\* C5: an Init call of metrics or logging returns only after the setup of its
\* subsystem has finished (the gate is done and no goroutine is inside the
\* setup body), and if that setup succeeded the provider handle and every
\* instrument are assigned.
InSetup(s, at) ==
    CASE s = "metrics" ->
            at \in {"initMetricsInternal:58", "initMetricsInternal:67",
                    "initMetricsInternal:90", "initMetricsInternal:91",
                    "initMetricsInternal:94", "InitMetrics:53"}
      [] s = "logging" ->
            at \in {"initLoggingInternal:77", "initLoggingInternal:86",
                    "initLoggingInternal:102", "initLoggingInternal:107",
                    "InitLogging:72"}

GateOf(s) == IF s = "metrics" THEN "meterOnce" ELSE "loggerOnce"

Ready(s) ==
    CASE s = "metrics" ->
            /\ meter = "planx"
            /\ globalMP # "default"
            /\ \A i \in Instruments : instr[i] = "set"
      [] s = "logging" ->
            /\ loggerProvider # "nil"
            /\ globalLP = loggerProvider

C5_InitReturnsAfterSetup ==
    \A s \in {"metrics", "logging"} :
        hist[s].returned > 0 =>
            /\ once[GateOf(s)].done = 1
            /\ \A p \in Procs : ~InSetup(s, pc[p])
            /\ hist[s].outcome = "nil" => Ready(s)

\* A caller that found another goroutine inside the gate has returned from a
\* setup that succeeded.
C5_Witness ==
    /\ ret.op \in {"InitMetrics", "InitLogging"}
    /\ ret.busy
    /\ hist[SubsystemOf(ret.op)].outcome = "nil"
    /\ Ready(SubsystemOf(ret.op))

\* C6: while logger.Init has never been called, the logger that Get and the
\* helpers built on it return is the one Init(DefaultConfig()) builds: stdout
\* output, service "planx", process level info.
C6_GetInitializesDefault ==
    (ret.op \in LoggerAccessors /\ hist["logger"].inits = 0) =>
        (ret.val = NewLogger(DefaultConfig) /\ zlGlobalLevel = InfoLevel)

\* C7: an accessor called before any Init of its subsystem returns a non-nil,
\* usable handle.
C7_AccessorNeverNil ==
    /\ (ret.op = "GetLoggerProvider" /\ hist["logging"].inits = 0) => ret.val # "nil"
    /\ (ret.op = "Tracer" /\ hist["tracing"].inits = 0) => ret.val # NilTracer
    /\ (ret.op = "Get" /\ hist["logger"].inits = 0) => ret.val # ZeroLogger

\* The child identity of the StartSpan call that returned last is a root
\* minted by that call: valid, local, and held by no other goroutine.
MintedRoot ==
    /\ IsValid(ret.val.child.sc)
    /\ ~ret.val.child.sc.remote
    /\ ret.val.child.sc.tid # ret.val.child.sc.sid
    /\ \A q \in Procs \ {ret.proc} :
          /\ ctx[q].sc.tid # ret.val.child.sc.tid
          /\ ctx[q].sc.sid # ret.val.child.sc.sid

\* C8 as stated: StartSpan on a context without identity returns a context
\* with a newly minted root identity, in every state.
C8_RootIdentityAlways ==
    (ret.op = "StartSpan" /\ ~IsValid(ret.val.parent.sc)) => MintedRoot

\* C8 as amended: ... once InitTracing has registered its tracer provider;
\* before that the returned context carries no identity.
C8_RootIdentityOnceRegistered ==
    (ret.op = "StartSpan" /\ ~IsValid(ret.val.parent.sc)) =>
        IF ret.val.provider # 0 THEN MintedRoot ELSE ~IsValid(ret.val.child.sc)

\* StartSpan has minted a root after InitTracing registered a provider.
C8_Witness ==
    /\ ret.op = "StartSpan"
    /\ ~IsValid(ret.val.parent.sc)
    /\ ret.val.provider # 0
    /\ IsValid(ret.val.child.sc)

\* C9: StartSpan on a context with identity T returns a context with T's
\* trace id and another span id.
C9_ChildSharesTrace ==
    (ret.op = "StartSpan" /\ IsValid(ret.val.parent.sc)) =>
        /\ ret.val.child.sc.tid = ret.val.parent.sc.tid
        /\ ret.val.child.sc.sid # ret.val.parent.sc.sid
        /\ IsValid(ret.val.child.sc)

\* StartSpan has returned a child of an identity that ExtractTraceContext
\* produced.
C9_Witness ==
    /\ ret.op = "StartSpan"
    /\ IsValid(ret.val.parent.sc)
    /\ ret.val.parent.sc.remote
    /\ ret.val.child.sc.tid = ret.val.parent.sc.tid

\* C10: the identity T injected into an empty carrier and extracted again on
\* a fresh context has T's trace id.
C10_RoundTrip ==
    (/\ ret.op = "ExtractTraceContext"
     /\ ret.val.in = Background
     /\ IsValid(ret.val.carrier.src)) =>
        ret.val.out.sc.tid = ret.val.carrier.src.tid

\* The carrier holds none of the keys the propagator reads.
NoRecognizedKeys(map) == DOMAIN map \cap PropagationKeys = {}

\* The entries of a carrier under the propagator's keys.
Related(map) == [k \in DOMAIN map \cap PropagationKeys |-> map[k]]

\* C11 as stated: ExtractTraceContext on a carrier without recognized keys
\* returns a context without trace identity, whatever the input context, and
\* does not panic.
C11_NoIdentityForEveryInput ==
    (ret.op = "ExtractTraceContext" /\ NoRecognizedKeys(ret.val.carrier.map)) =>
        (~HasTraceID(ret.val.out.sc) /\ ~HasSpanID(ret.val.out.sc) /\ ~panicked)

\* C11 as amended: ... for every input context that itself carries no trace
\* identity.
C11_NoIdentityFromNothing ==
    (/\ ret.op = "ExtractTraceContext"
     /\ NoRecognizedKeys(ret.val.carrier.map)
     /\ ~HasTraceID(ret.val.in.sc) /\ ~HasSpanID(ret.val.in.sc)) =>
        (~HasTraceID(ret.val.out.sc) /\ ~HasSpanID(ret.val.out.sc) /\ ~panicked)

\* The installed propagator has extracted from a carrier that holds a
\* well-formed header under an unknown key only, into an empty context.
C11_Witness ==
    /\ ret.op = "ExtractTraceContext"
    /\ propagator = "composite"
    /\ ret.val.carrier.map = UnrelatedEntry
    /\ ret.val.in = Background
    /\ ~IsValid(ret.val.out.sc)

\* C12: ExtractTraceContext on a carrier without recognized keys returns its
\* input context: same identity (present or absent), same baggage.
C12_ExtractIsIdentity ==
    (ret.op = "ExtractTraceContext" /\ NoRecognizedKeys(ret.val.carrier.map)) =>
        ret.val.out = ret.val.in

\* The installed propagator has extracted from a carrier without recognized
\* keys into a context that carries an identity.
C12_Witness ==
    /\ ret.op = "ExtractTraceContext"
    /\ propagator = "composite"
    /\ NoRecognizedKeys(ret.val.carrier.map)
    /\ IsValid(ret.val.in.sc)
    /\ ret.val.out.sc = ret.val.in.sc

\* C13: InjectTraceContext keeps every carrier entry under an unrelated key
\* and adds none, and injecting the same context again changes nothing;
\* ExtractTraceContext leaves the carrier as it is and extracts what it would
\* extract from the carrier without its unrelated entries.
C13_UnrelatedKeysIgnored ==
    [][\A p \in Procs :
          /\ InjectTraceContext(p) =>
                /\ \A k \in DOMAIN carrier[p].map \ PropagationKeys :
                      /\ k \in DOMAIN carrier'[p].map
                      /\ carrier'[p].map[k] = carrier[p].map[k]
                /\ DOMAIN carrier'[p].map \ PropagationKeys \subseteq DOMAIN carrier[p].map
                /\ PropagatorInject(propagator, ctx[p], carrier'[p].map) = carrier'[p].map
          /\ \A fresh \in BOOLEAN :
                ExtractTraceContext(p, fresh) =>
                    /\ carrier' = carrier
                    /\ ctx'[p] = PropagatorExtract(propagator,
                                                   IF fresh THEN Background ELSE ctx[p],
                                                   Related(carrier[p].map))]_vars

\* A local identity has been injected into a carrier that held an unrelated
\* entry, and the entry is still there.
C13_Witness ==
    \E p \in Procs :
        /\ "x-request-id" \in DOMAIN carrier[p].map
        /\ carrier[p].map["x-request-id"] = RemoteParent
        /\ "traceparent" \in DOMAIN carrier[p].map
        /\ carrier[p].map["traceparent"] # RemoteParent

\* The span operations of which only RecordSpanError, at its line 357, can
\* end the process.
PanicsOnlyAtLine357 == panicked => \E p \in Procs : pc[p] = "RecordSpanError:357"

\* Span table `after` is `before` with the entry of sid set to sp.
OnlyChanged(before, after, sid, sp) ==
    /\ DOMAIN after = DOMAIN before \cup {sid}
    /\ after[sid] = sp
    /\ \A k \in DOMAIN before \ {sid} : after[k] = before[k]

\* C14: the logger WithContext (or DebugCtx, InfoCtx, WarnCtx, ErrorCtx)
\* returns has the field trace_id with the context's trace id exactly when
\* the context has one, and the field span_id likewise.
C14_ContextFields ==
    ret.op \in ContextHelpers =>
        LET sc == ctx[ret.proc].sc
            l  == ret.val IN
        /\ IF HasTraceID(sc)
           THEN "trace_id" \in DOMAIN l /\ l.trace_id = Hex(sc.tid, 32)
           ELSE "trace_id" \notin DOMAIN l
        /\ IF HasSpanID(sc)
           THEN "span_id" \in DOMAIN l /\ l.span_id = Hex(sc.sid, 16)
           ELSE "span_id" \notin DOMAIN l

\* WithContext has returned a logger for a context that carries an identity.
C14_Witness ==
    /\ ret.op \in ContextHelpers
    /\ IsValid(ctx[ret.proc].sc)
    /\ "trace_id" \in DOMAIN ret.val
    /\ "span_id" \in DOMAIN ret.val

\* C15: a logger obtained from the context of a span that has ended still has
\* that span's trace_id and span_id, and End leaves the identity in the
\* context as it was.
C15_FieldsAfterEnd ==
    /\ ret.op \in ContextHelpers =>
          LET sc == ctx[ret.proc].sc IN
          (IsSdkSpan(sc) /\ SpanState(spans, sc.sid).ended) =>
              /\ "trace_id" \in DOMAIN ret.val /\ ret.val.trace_id = Hex(sc.tid, 32)
              /\ "span_id" \in DOMAIN ret.val /\ ret.val.span_id = Hex(sc.sid, 16)
    /\ ret.op = "End" => ctx[ret.proc].sc = ret.val.sc

\* WithContext has returned a logger for the context of an ended span.
C15_Witness ==
    /\ ret.op \in ContextHelpers
    /\ IsSdkSpan(ctx[ret.proc].sc)
    /\ SpanState(spans, ctx[ret.proc].sc.sid).ended
    /\ "span_id" \in DOMAIN ret.val

\* C16: AddSpanEvent appends its message, once, to the events of the span of
\* its context if that is an SDK span that has not ended, and changes nothing
\* otherwise; it does not panic.
C16_EventOnlyWhileRecording ==
    /\ ret.op = "AddSpanEvent" =>
          LET v == ret.val
              b == SpanState(v.before, v.sc.sid) IN
          IF IsSdkSpan(v.sc) /\ ~b.ended
          THEN OnlyChanged(v.before, v.after, v.sc.sid,
                           [b EXCEPT !.events = Append(@, v.msg)])
          ELSE v.after = v.before
    /\ PanicsOnlyAtLine357

\* AddSpanEvent has been called on a span that had ended.
C16_Witness ==
    /\ ret.op = "AddSpanEvent"
    /\ IsSdkSpan(ret.val.sc)
    /\ SpanState(ret.val.before, ret.val.sc.sid).ended
    /\ ret.val.after = ret.val.before

\* C17 as stated: RecordSpanError leaves the span with status Error, the
\* error's message and no end; a span that ended without RecordSpanError has
\* status Ok.
C17_ErrorStatusAlways ==
    /\ ret.op = "RecordSpanError" =>
          LET a == SpanState(ret.val.after, ret.val.sc.sid) IN
          a.status = "Error" /\ a.desc = ret.val.err /\ ~a.ended
    /\ \A sid \in DOMAIN spans :
          (spans[sid].ended /\ ~spans[sid].reported) => spans[sid].status = "Ok"

\* C17 as amended: on a span that is recording, RecordSpanError with a non-nil
\* error leaves status Error, the error's message and no end; on any other
\* span it changes nothing; a span on which RecordSpanError was never called
\* while it was open has status Unset, open or ended.
C17_ErrorStatusWhileRecording ==
    /\ ret.op = "RecordSpanError" =>
          LET v == ret.val
              b == SpanState(v.before, v.sc.sid)
              a == SpanState(v.after, v.sc.sid) IN
          IF IsSdkSpan(v.sc) /\ ~b.ended
          THEN /\ a.status = "Error" /\ a.desc = v.err
               /\ ~a.ended /\ a.endTime = 0
               /\ OnlyChanged(v.before, v.after, v.sc.sid, a)
          ELSE v.after = v.before
    /\ \A sid \in DOMAIN spans :
          ~spans[sid].reported => spans[sid].status = "Unset"

\* RecordSpanError has been called on a recording span.
C17_Witness ==
    /\ ret.op = "RecordSpanError"
    /\ IsSdkSpan(ret.val.sc)
    /\ SpanState(ret.val.after, ret.val.sc.sid).status = "Error"
    /\ ~SpanState(ret.val.after, ret.val.sc.sid).ended

\* C18: End on a span that has ended changes nothing, neither its end time
\* nor its status, and does not panic.
C18_SecondEndIsNoOp ==
    /\ (ret.op = "End" /\ SpanState(ret.val.before, ret.val.sc.sid).ended) =>
          ret.val.after = ret.val.before
    /\ PanicsOnlyAtLine357

\* End has been called on a span that had ended.
C18_Witness ==
    /\ ret.op = "End"
    /\ IsSdkSpan(ret.val.sc)
    /\ SpanState(ret.val.before, ret.val.sc.sid).ended

\* The step adds n to the stream of instrument i under attrs and to no other.
AddsTo(i, attrs, n) ==
    LET k == <<i, attrs>> IN
    /\ ~panicked'
    /\ DOMAIN points' = DOMAIN points \cup {k}
    /\ points'[k] = (IF k \in DOMAIN points THEN points[k] ELSE 0) + n
    /\ \A x \in DOMAIN points \ {k} : points'[x] = points[x]

\* C19: once InitMetrics has succeeded, RecordBatchSent adds 1 to batchesSent
\* and its record count to recordsSent under its attribute set and changes no
\* other counter or attribute set; RecordBatchReceived likewise for
\* batchesReceived and recordsReceived.
C19_BatchCountersExact ==
    [][hist["metrics"].outcome = "nil" =>
          \A p \in Procs :
              /\ RecordBatchSent_Batches(p) =>
                    AddsTo("batchesSent", loc[p].args.attrs, 1)
              /\ RecordBatchSent_Records(p) =>
                    AddsTo("recordsSent", loc[p].args.attrs, loc[p].args.n)
              /\ RecordBatchReceived_Batches(p) =>
                    AddsTo("batchesReceived", loc[p].args.attrs, 1)
              /\ RecordBatchReceived_Records(p) =>
                    AddsTo("recordsReceived", loc[p].args.attrs, loc[p].args.n)]_vars

\* A batch of 100 was recorded as sent for tenant t1 and one as received for
\* tenant t2.
C19_Witness ==
    LET a1 == BatchAttrs("t1", "source", "mysql")
        a2 == BatchAttrs("t2", "source", "mysql") IN
    /\ hist["metrics"].outcome = "nil"
    /\ DOMAIN points = {<<"batchesSent", a1>>, <<"recordsSent", a1>>,
                        <<"batchesReceived", a2>>, <<"recordsReceived", a2>>}
    /\ points[<<"batchesSent", a1>>] = 1
    /\ points[<<"recordsSent", a1>>] = 100
    /\ points[<<"recordsReceived", a2>>] = 100

\* C20: ShutdownLogging without a provider returns nil and leaves the
\* provider state as it is; with a provider the processors are shut down once
\* however many calls are made, and a call that finds the provider stopped
\* returns nil.
C20_ShutdownIdempotent ==
    /\ lpShutdowns <= 1
    /\ lpStopped <=> (lpShutdowns = 1)
    /\ loggerProvider = "nil" => (~lpStopped /\ lpShutdowns = 0)
    /\ ~panicked
    /\ ret.op = "ShutdownLogging" =>
          /\ (ret.val.provider = "nil" \/ ret.val.stopped) => ret.val.err = "nil"
          /\ ret.val.provider # "nil" => (lpStopped /\ lpShutdowns = 1)

\* ShutdownLogging has been called on a provider that was already shut down.
C20_Witness ==
    /\ ret.op = "ShutdownLogging"
    /\ ret.val.provider # "nil"
    /\ ret.val.stopped
    /\ lpShutdowns = 1

\* What an Init of subsystem s configures: the process-wide registration, the
\* cached handle and the instrument variables.
Configuration(s) ==
    CASE s = "metrics" -> <<globalMP, meter, instr>>
      [] s = "logging" -> <<globalLP, loggerProvider>>
      [] s = "tracing" -> <<globalTP, tpDelegate, propagator, tracer>>

Unconfigured(s) ==
    CASE s = "metrics" -> <<"default", "nil", [i \in Instruments |-> "nil"]>>
      [] s = "logging" -> <<"default", "nil">>
      [] s = "tracing" -> <<0, 0, "noop", NilTracer>>

\* Goroutine p takes a step of a call whose setup has failed or fails now.
FailingStep(p) ==
    /\ pc'[p] # pc[p]
    /\ loc[p].err # "nil" \/ loc'[p].err # "nil"

\* C21: no step of an Init call whose setup returns an error changes the
\* provider registration, the cached handle or an instrument variable of any
\* subsystem, and once the gated setup of metrics or logging has failed the
\* subsystem is as it was at process start.
C21_FailedInitWritesNothing ==
    [][/\ \A p \in Procs :
             FailingStep(p) =>
                 \A s \in {"metrics", "logging", "tracing"} :
                     Configuration(s)' = Configuration(s)
       /\ \A s \in {"metrics", "logging"} :
             Failed(s)' => Configuration(s)' = Unconfigured(s)]_vars

\* An InitTracing call has returned an error after an earlier call had
\* configured tracing, and an InitMetrics setup has failed.
C21_Witness ==
    /\ ret.op = "InitTracing"
    /\ ret.val # "nil"
    /\ tracer.kind = "sdk"
    /\ globalTP # 0
    /\ Failed("metrics")

\* C22: once the first logger.Init has run (the gate is done), the global
\* logger and the process level are those of one configuration, and no later
\* step, of another Init or of Get and the helpers, changes either.
C22_FirstInitWins ==
    [][once["once"].done = 1 =>
          /\ globalLogger' = globalLogger
          /\ zlGlobalLevel' = zlGlobalLevel
          /\ \E c \in LoggerConfigs :
                /\ globalLogger = NewLogger(c)
                /\ zlGlobalLevel = ConfiguredLevel(c)]_vars

\* After the first Init has run, an Init with another configuration is about
\* to return and an accessor has returned the logger of the first.
C22_Witness ==
    /\ once["once"].done = 1
    /\ ret.op \in LoggerAccessors
    /\ ret.val = globalLogger
    /\ \E p \in Procs :
          /\ pc[p] = "Init:68"
          /\ loc[p].args.via = "Init"
          /\ NewLogger(loc[p].args.cfg) # globalLogger

\* An InitTracing call has returned from a setup that succeeded and no
\* InitTracing call is running.
TracingInitialized ==
    /\ hist["tracing"].outcome = "nil"
    /\ hist["tracing"].returned > 0
    /\ \A p \in Procs :
          pc[p] \notin {"InitTracing:258", "InitTracing:259", "InitTracing:264",
                        "InitTracing:ret"}

\* C23: once InitTracing has completed, no operation assigns the tracer
\* variable: its value stays, and no Tracer() or StartSpan call executes the
\* assignment of line 272, whenever its nil check ran.
C23_TracerReadOnly ==
    [][TracingInitialized =>
          /\ tracer' = tracer
          /\ \A p \in Procs : ~Tracer_Default(p)]_vars

\* C24: once InitMetrics has succeeded, UpdateWindowBacklog adds its delta,
\* negative or not, to the window backlog of its stage, UpdateSessionsActive
\* to the active sessions of its plugin type and UpdateInFlightBatches to the
\* one in-flight value, and none changes another gauge or attribute value; so
\* each value is the sum of the deltas applied to it.
C24_GaugesSumDeltas ==
    [][hist["metrics"].outcome = "nil" =>
          \A p \in Procs, d \in Deltas :
              /\ \A s \in GaugeStages :
                    UpdateWindowBacklog(p, s, d) =>
                        AddsTo("windowBacklog", [stage |-> s], d)
              /\ \A y \in GaugePluginTypes :
                    UpdateSessionsActive(p, y, d) =>
                        AddsTo("sessionsActive", [plugin_type |-> y], d)
              /\ UpdateInFlightBatches(p, d) =>
                    AddsTo("inFlightBatches", << >>, d)]_vars

\* After +5 and -2 the backlog of processor-1 is 3 and nothing else has a
\* value.
C24_Witness ==
    /\ hist["metrics"].outcome = "nil"
    /\ DOMAIN points = {<<"windowBacklog", [stage |-> "processor-1"]>>}
    /\ points[<<"windowBacklog", [stage |-> "processor-1"]>>] = 3

\* C25: no RecordSpanError call panics, whatever the span of its context
\* (recording, ended, remote, none) and whatever err, nil included.
C25_RecordSpanErrorNeverPanics ==
    \A p \in Procs : ~(panicked /\ pc[p] = "RecordSpanError:357")

\* C26: for a context that holds the values of ContextWithTrace, the logger
\* WithContext returns has no trace_id and no span_id field if the context
\* carries no span, and the span's trace id and span id if it carries one.
C26_FieldsFromSpanOnly ==
    (ret.op \in ContextHelpers /\ ctx[ret.proc].values # << >>) =>
        LET sc == ctx[ret.proc].sc
            l  == ret.val IN
        IF IsValid(sc)
        THEN /\ "trace_id" \in DOMAIN l /\ l.trace_id = Hex(sc.tid, 32)
             /\ "span_id" \in DOMAIN l /\ l.span_id = Hex(sc.sid, 16)
        ELSE /\ "trace_id" \notin DOMAIN l
             /\ "span_id" \notin DOMAIN l

\* WithContext has returned a logger for a context that holds legacy values
\* and a span.
C26_Witness ==
    /\ ret.op \in ContextHelpers
    /\ ctx[ret.proc].values = ("span_id" :> LegacySpanID) @@
                              ("trace_id" :> LegacyTraceID)
    /\ IsSdkSpan(ctx[ret.proc].sc)
    /\ ret.val.trace_id = Hex(ctx[ret.proc].sc.tid, 32)

=============================================================================
